---- MODULE Spec2Model ----
(***************************************************************************)
(* Model of the property backend: the JSON file store (src/storage.js),    *)
(* the image ingestion (src/imageHandler.js) and the request handlers      *)
(* (src/Downloads/Backend/propertyController.js) running on one Node.js    *)
(* event loop.                                                             *)
(*                                                                         *)
(* A record is a function from a set of keys to values, as a JS object.    *)
(* The file holds the parsed collection: on the values modelled here       *)
(* (numbers, strings, arrays and plain objects) JSON.stringify followed by *)
(* JSON.parse gives the value back.                                        *)
(***************************************************************************)
EXTENDS Integers, Sequences, FiniteSets, TLC

\* ------------------------------------------------------------------ bounds
\* Clock readings (Date.now(), new Date()) range over 0..MaxClock.
MaxClock == 1
\* Math.random().toString(36).substr(2, 9) ranges over 1..MaxRand.
MaxRand == 2
\* The collection holds at most MaxRecords records.
MaxRecords == 2
\* Concurrent requests of the event-loop specification.
MaxReq == 2
\* Images of one submitted batch.
MaxImages == 2

Times == 0..MaxClock
Rands == 1..MaxRand
Reqs  == 1..MaxReq

\* `PROP_${Date.now()}_${random}`: the pair of the two parts.
Ids == Times \X Rands

VARIABLES
    file,      \* properties.json: [st: absent | ok | corrupt, data: the collection]
    now,       \* the wall clock, in milliseconds
    last,      \* the last storage call and what it returned
    hist,      \* history: for every id, never | live | deleted
    task,      \* the requests being handled, each with its position
    running    \* the request holding the JS thread, 0 when the loop is idle

vars == <<file, now, last, hist, task, running>>

\* ------------------------------------------------------------- JS helpers
\* {}
Empty == [k \in {} |-> 0]

\* null, where a record is expected: every record has at least its id.
Null == Empty

\* {...a, ...b}
Spread(a, b) ==
    [k \in (DOMAIN a) \cup (DOMAIN b) |-> IF k \in DOMAIN b THEN b[k] ELSE a[k]]

Min(S) == CHOOSE x \in S : \A y \in S : x <= y

\* ---------------------------------------------------------------- storage
\* readProperties: [] when the file is absent, and [] again from the catch
\* when it cannot be parsed.
ReadProperties(f) ==
    IF f.st = "ok" THEN f.data ELSE << >>

\* What fs.writeFileSync can do: write the file; throw before opening it
\* (mkdirSync or open fails), leaving it as it was; or throw after opening
\* it with flag 'w', which has truncated it.
WriteOutcomes == {"ok", "failIntact", "failTruncated"}

\* writeProperties: the file after the call.
WriteFile(f, properties, w) ==
    CASE w = "ok"            -> [st |-> "ok", data |-> properties]
      [] w = "failIntact"    -> f
      [] w = "failTruncated" -> [st |-> "corrupt", data |-> << >>]

\* writeProperties: its return value.
WriteProperties(w) == w = "ok"

\* saveProperty, lines 59-66: the new record.
NewProperty(propertyId, propertyData, tc, tu) ==
    Spread(Spread([id |-> propertyId], propertyData),
           [createdAt |-> tc, updatedAt |-> tu])

\* properties.findIndex(prop => prop.id === id), 1-based; 0 for -1.
FindIndex(properties, id) ==
    LET hits == {i \in 1..Len(properties) : properties[i].id = id}
    IN  IF hits = {} THEN 0 ELSE Min(hits)

\* getPropertyById on the file: the record, or null.
GetPropertyById(f, id) ==
    LET properties == ReadProperties(f)
        i == FindIndex(properties, id)
    IN  IF i = 0 THEN Null ELSE properties[i]

\* A record built from the supplied data alone, under the old id.
ReplacedProperty(old, updateData, tu) ==
    Spread(Spread([id |-> old.id], updateData), [updatedAt |-> tu])

\* updateProperty, lines 109-113: the merged record.
MergedProperty(old, updateData, tu) ==
    Spread(Spread(old, updateData), [updatedAt |-> tu])

\* properties.filter(prop => prop.id !== id)
FilteredProperties(properties, id) ==
    SelectSeq(properties, LAMBDA p : p.id # id)

\* ------------------------------------------------- the storage interface
\* Each exported function is synchronous (readFileSync, writeFileSync, no
\* await): called on its own it runs from its load to its return in one step,
\* in which the clock reads of the call give one reading.
Opt(S) == {Empty} \cup S

Prices == {1, 2}

\* Attribute mappings as the request schema lets them through: the listing's
\* own fields.
PlainAttrs == {[price |-> v] : v \in Prices}

\* Attribute mappings a caller of the storage module can hand over besides:
\* the empty one, and those that carry a key of the store's own. A supplied
\* updatedAt is left out: both functions overwrite it.
OwnKeyAttrs ==
    Opt({[id |-> v] : v \in Ids} \cup {[createdAt |-> v] : v \in Times})

NoId == <<0, 0>>

Idle == [kind |-> "idle", pc |-> "idle"]

NoTasks == [r \in Reqs |-> Idle]

\* The last call: the function, its id argument, the keys of its attribute
\* argument, and "record", "null", "true", "false" or "threw".
Called(op, id, keys, ret) == [op |-> op, id |-> id, keys |-> keys, ret |-> ret]

\* saveProperty(propertyData). rnd is the Math.random() suffix, w what the
\* write does.
SaveProperty(propertyData, rnd, w) ==
    LET properties  == ReadProperties(file)
        newProperty == NewProperty(<<now, rnd>>, propertyData, now, now)
    IN  /\ Len(properties) < MaxRecords
        /\ file' = WriteFile(file, Append(properties, newProperty), w)
        /\ last' = Called("save", NoId, DOMAIN propertyData,
                          IF WriteProperties(w) THEN "record" ELSE "threw")
        /\ UNCHANGED <<now, task, running>>

\* updateProperty(id, updateData).
UpdateProperty(id, updateData, w) ==
    LET properties == ReadProperties(file)
        index      == FindIndex(properties, id)
    IN  IF index = 0
          THEN /\ w = "ok"
               /\ last' = Called("update", id, DOMAIN updateData, "null")
               /\ UNCHANGED <<file, now, task, running>>
          ELSE /\ file' = WriteFile(file,
                            [properties EXCEPT
                               ![index] = MergedProperty(@, updateData, now)], w)
               /\ last' = Called("update", id, DOMAIN updateData,
                                 IF WriteProperties(w) THEN "record" ELSE "threw")
               /\ UNCHANGED <<now, task, running>>

\* deleteProperty(id).
DeleteProperty(id, w) ==
    LET properties         == ReadProperties(file)
        filteredProperties == FilteredProperties(properties, id)
    IN  IF Len(filteredProperties) = Len(properties)
          THEN /\ w = "ok"
               /\ last' = Called("delete", id, {}, "false")
               /\ UNCHANGED <<file, now, task, running>>
          ELSE /\ file' = WriteFile(file, filteredProperties, w)
               /\ last' = Called("delete", id, {},
                                 IF WriteProperties(w) THEN "true" ELSE "false")
               /\ UNCHANGED <<now, task, running>>

NoCall == Called("none", NoId, {}, "none")

\* The clock moves on between calls; the call that had just returned is
\* then no longer the last thing that happened.
Tick ==
    /\ now < MaxClock
    /\ now' = now + 1
    /\ last' = NoCall
    /\ UNCHANGED <<file, task, running>>

CallSave(A, W) ==
    \E propertyData \in A, rnd \in Rands, w \in W :
        SaveProperty(propertyData, rnd, w)

CallUpdate(I, A, W) ==
    \E id \in I, updateData \in A, w \in W : UpdateProperty(id, updateData, w)

CallDelete(I, W) ==
    \E id \in I, w \in W : DeleteProperty(id, w)

\* The ids of the records in the file.
StoredIds == {ReadProperties(file)[i].id : i \in 1..Len(ReadProperties(file))}

\* The ids that a save has handed out.
IssuedIds == {i \in Ids : hist[i] # "never"}

Init ==
    /\ file = [st |-> "absent", data |-> << >>]
    /\ now = 0
    /\ last = NoCall
    /\ hist = [i \in Ids \cup {NoId} |-> "never"]
    /\ task = NoTasks
    /\ running = 0

\* The history of the ids, kept from what the step's call returned: a save
\* that returned a record makes the record's id live, a delete that
\* returned true makes its id deleted.
KeepHistory ==
    hist' = CASE last'.op = "save" /\ last'.ret = "record" ->
                     [hist EXCEPT ![file'.data[Len(file'.data)].id] = "live"]
              [] last'.op = "delete" /\ last'.ret = "true" ->
                     [hist EXCEPT ![last'.id] = "deleted"]
              [] OTHER -> hist

\* Callers of the storage module, one call at a time, the disk in order,
\* with the history of the ids. The ids they name are ids a save has handed
\* out, or an id that no record ever had.
StoreNext ==
    \/ Tick /\ KeepHistory
    \/ CallSave(OwnKeyAttrs, {"ok"}) /\ KeepHistory
    \/ CallUpdate(IssuedIds \cup {NoId}, OwnKeyAttrs, {"ok"}) /\ KeepHistory
    \/ CallDelete(IssuedIds \cup {NoId}, {"ok"}) /\ KeepHistory

SpecStore == Init /\ [][StoreNext]_vars

\* The listing's own fields only, on a disk whose writes can fail. The ids
\* named are those of the records in the file, or an id that no record has.
FaultyNext ==
    \/ Tick /\ UNCHANGED hist
    \/ CallSave(PlainAttrs, WriteOutcomes) /\ UNCHANGED hist
    \/ CallUpdate(StoredIds \cup {NoId}, Opt(PlainAttrs), WriteOutcomes) /\ UNCHANGED hist
    \/ CallDelete(StoredIds \cup {NoId}, WriteOutcomes) /\ UNCHANGED hist

SpecFaulty == Init /\ [][FaultyNext]_vars

\* ---------------------------------------------------------- imageHandler
\* An image payload is [name, type, data, size]; "" and 0 are the values
\* JS takes for absent.
AllowedTypes == {"image/jpeg", "image/jpg", "image/png", "image/webp"}

\* 10 * 1024 * 1024
MaxImageBytes == 10 * 1024 * 1024

\* The data of a payload is a string whose characters matter: a sequence of
\* one-character strings, << >> when the payload has none.
DataPrefix == <<"d", "a", "t", "a", ":", "i", "m", "a", "g", "e", "/">>

Base64Mark == <<";", "b", "a", "s", "e", "6", "4", ",">>

ImageSubtypes ==
    {<<"j", "p", "e", "g">>, <<"j", "p", "g">>, <<"p", "n", "g">>,
     <<"w", "e", "b", "p">>}

LowerLetters ==
    {"a", "b", "c", "d", "e", "f", "g", "h", "i", "j", "k", "l", "m",
     "n", "o", "p", "q", "r", "s", "t", "u", "v", "w", "x", "y", "z"}

UpperLetters ==
    {"A", "B", "C", "D", "E", "F", "G", "H", "I", "J", "K", "L", "M",
     "N", "O", "P", "Q", "R", "S", "T", "U", "V", "W", "X", "Y", "Z"}

Digits == {"0", "1", "2", "3", "4", "5", "6", "7", "8", "9"}

\* [A-Za-z0-9+/]
Base64Alphabet == UpperLetters \cup LowerLetters \cup Digits \cup {"+", "/"}

StartsWith(s, p) == Len(s) >= Len(p) /\ SubSeq(s, 1, Len(p)) = p

\* Any data at all taken for a data URI.
AnyData(data) == Len(data) > 0

\* base64Regex.test(data), /^data:image\/(jpeg|jpg|png|webp);base64,/
Base64Regex(data) ==
    \E t \in ImageSubtypes : StartsWith(data, DataPrefix \o t \o Base64Mark)

\* The length of the match of /^data:image\/[a-z]+;base64,/ in data, 0
\* without a match.
PrefixLength(data) ==
    LET ns == {n \in 1..Len(data) :
                 /\ StartsWith(data, DataPrefix)
                 /\ Len(data) >= Len(DataPrefix) + n + Len(Base64Mark)
                 /\ \A i \in 1..n : data[Len(DataPrefix) + i] \in LowerLetters
                 /\ SubSeq(data, Len(DataPrefix) + n + 1,
                           Len(DataPrefix) + n + Len(Base64Mark)) = Base64Mark}
    IN  IF ns = {} THEN 0
        ELSE Len(DataPrefix) + (CHOOSE n \in ns : TRUE) + Len(Base64Mark)

\* Buffer.from(base64Data, 'base64').length, base64Data being data without
\* the prefix: six bits for each leading character of the alphabet.
DecodedLength(data) ==
    LET base64Data == SubSeq(data, PrefixLength(data) + 1, Len(data))
        stops      == {i \in 1..Len(base64Data) : base64Data[i] \notin Base64Alphabet}
        n          == IF stops = {} THEN Len(base64Data)
                      ELSE (CHOOSE i \in stops : \A j \in stops : i <= j) - 1
    IN  (n * 6) \div 8

\* A validation that looks at the name only.
NameOnly(imageData) ==
    [isValid |-> imageData.name # "",
     errors  |-> IF imageData.name = "" THEN <<"Image name is required">> ELSE << >>]

\* validateImageData
ValidateImageData(imageData) ==
    LET errors ==
            (IF imageData.name = "" THEN <<"Image name is required">> ELSE << >>)
         \o (IF imageData.type = "" THEN <<"Image type is required">>
             ELSE IF imageData.type \notin AllowedTypes
                  THEN <<"Invalid image type. Only JPEG, PNG, and WebP are allowed">>
                  ELSE << >>)
         \o (IF imageData.data = << >> THEN <<"Image data is required">>
             ELSE IF ~Base64Regex(imageData.data)
                  THEN <<"Invalid base64 image data format">>
                  ELSE << >>)
         \o (IF imageData.size # 0 /\ imageData.size > MaxImageBytes
             THEN <<"Image size cannot exceed 10MB">> ELSE << >>)
    IN  [isValid |-> errors = << >>, errors |-> errors]

\* processImage; wr tells whether mkdirSync and writeFileSync go through.
\* Reading a field of a null payload throws inside the try, as a failing
\* write does: the catch returns the failure.
\* The generated filename and filepath of a success are left out of the
\* result: no two are alike and nothing reads them.
ProcessImage(imageData, wr) ==
    LET validation == ValidateImageData(imageData)
    IN  IF imageData = Null
          THEN [success |-> FALSE, errors |-> <<"TypeError">>]
        ELSE IF ~validation.isValid
          THEN [success |-> FALSE, errors |-> validation.errors]
        ELSE IF ~wr
          THEN [success |-> FALSE, errors |-> <<"write failed">>]
        ELSE [success |-> TRUE, originalName |-> imageData.name,
              size |-> DecodedLength(imageData.data)]

\* processImage, lines 88-102: the image file is there once validation has
\* passed and the writes have gone through.
ImageWritten(imageData, wr) ==
    /\ imageData # Null
    /\ ValidateImageData(imageData).isValid
    /\ wr

\* A batch counted as ingested as soon as one image was.
AnyProcessed(results, errors) == results # << >>

\* processImages, line 160: success: errors.length === 0
BatchSuccess(results, errors) == errors = << >>

PngUri == DataPrefix \o <<"p", "n", "g">> \o Base64Mark \o <<"A", "A", "A", "A">>

PlainBase64 == <<"A", "A", "A", "A">>

GoodImage ==
    [name |-> "a.png", type |-> "image/png", data |-> PngUri, size |-> 3]

\* Plain base64 without the data-URI prefix.
BadImage ==
    [name |-> "b.png", type |-> "image/png", data |-> PlainBase64, size |-> 3]

RECURSIVE SeqsUpTo(_, _)
SeqsUpTo(S, n) ==
    IF n = 0 THEN {<< >>}
    ELSE LET shorter == SeqsUpTo(S, n - 1)
         IN  shorter \cup {Append(q, x) : q \in shorter, x \in S}

Batches == SeqsUpTo({GoodImage, BadImage}, MaxImages)

\* ------------------------------------------------------- the event loop
\* One JS thread. A handler that has the thread keeps it until it awaits or
\* returns; last and hist, the history of the storage interface's callers,
\* are not kept here. The positions at which a handler is off the thread are "images"
\* and "check" (the awaits of processImages line 140 and of addProperty
\* line 29) and "done". The storage functions have no await.

\* Every await is taken as a point where any other handler may run: the
\* schedules of Node, which resumes an await on an already settled promise
\* before it serves the next request, are among these.

\* A handler that awaited its read, as with fs.promises.readFile.
YieldsAlsoAfterLoad(pc) == pc \in {"idle", "images", "check", "persist", "done"}

Yields(pc) == pc \in {"idle", "images", "check", "done"}

\* The thread after request r's step left it at pc.
Thread(r, pc) == IF Yields(pc) THEN 0 ELSE r

\* Request r can take its next step. The requests are numbered in the order
\* of their arrival.
CanStep(r) ==
    /\ running = Thread(r, task[r].pc)
    /\ task[r].kind = "idle" => \A q \in 1..(r - 1) : task[q].kind # "idle"

Request(kind, pc, id, data, images) ==
    [kind |-> kind, pc |-> pc, id |-> id, data |-> data, images |-> images,
     results |-> << >>, errors |-> << >>, properties |-> << >>,
     status |-> 0, out |-> NoId]

\* What is left of a request once it has answered: the status, the id in
\* the answer and, for a 400, the indexes of the failing images.
Answered(t, status, out) ==
    [t EXCEPT !.pc = "done", !.id = NoId, !.data = Empty, !.images = << >>,
              !.results = << >>,
              !.properties = << >>, !.status = status, !.out = out]

\* addProperty, lines 11-29: up to the await of processImages, or, without
\* images, on into saveProperty.
AddPropertyStart(r) ==
    /\ task[r].kind = "idle"
    /\ CanStep(r)
    /\ \E propertyData \in PlainAttrs, images \in Batches :
         LET pc == IF Len(images) > 0 THEN "images" ELSE "load"
         IN  /\ task' = [task EXCEPT ![r] = Request("create", pc, NoId, propertyData, images)]
             /\ running' = Thread(r, pc)
    /\ UNCHANGED <<file, now, last, hist>>

\* processImages, lines 138-157: one turn of the loop.
ProcessImagesStep(r, WR) ==
    /\ task[r].pc = "images"
    /\ CanStep(r)
    /\ \E wr \in WR :
         LET t      == task[r]
             i      == Len(t.results) + Len(t.errors)
             result == ProcessImage(t.images[i + 1], wr)
             pc     == IF i + 1 < Len(t.images) THEN "images" ELSE "check"
         IN  /\ task' = [task EXCEPT ![r] =
                    IF result.success
                      THEN [t EXCEPT !.pc = pc,
                              !.results = Append(@, [index |-> i,
                                                     originalName |-> result.originalName,
                                                     size |-> result.size])]
                      ELSE [t EXCEPT !.pc = pc,
                              !.errors = Append(@, [index |-> i,
                                                    originalName |-> t.images[i + 1].name])]]
             /\ running' = Thread(r, pc)
    /\ UNCHANGED <<file, now, last, hist>>

\* addProperty, lines 31-46: the batch's verdict, then 400 or on into
\* saveProperty.
AddPropertyCheck(r) ==
    /\ task[r].pc = "check"
    /\ CanStep(r)
    /\ IF ~BatchSuccess(task[r].results, task[r].errors)
         THEN /\ task' = [task EXCEPT ![r] = Answered(@, 400, NoId)]
              /\ running' = 0
         ELSE /\ task' = [task EXCEPT ![r].pc = "load"]
              /\ running' = Thread(r, "load")
    /\ UNCHANGED <<file, now, last, hist>>

\* updatePropertyById, lines 150-155, to the call of updateProperty.
UpdateStart(r) ==
    /\ task[r].kind = "idle"
    /\ CanStep(r)
    /\ \E id \in StoredIds \cup {NoId}, updateData \in PlainAttrs :
         task' = [task EXCEPT ![r] = Request("update", "load", id, updateData, << >>)]
    /\ running' = Thread(r, "load")
    /\ UNCHANGED <<file, now, last, hist>>

\* deletePropertyById, lines 181-184, to the call of deleteProperty.
DeleteStart(r) ==
    /\ task[r].kind = "idle"
    /\ CanStep(r)
    /\ \E id \in StoredIds \cup {NoId} :
         task' = [task EXCEPT ![r] = Request("delete", "load", id, Empty, << >>)]
    /\ running' = Thread(r, "load")
    /\ UNCHANGED <<file, now, last, hist>>

\* const properties = readProperties(), first line of the three functions.
Load(r) ==
    /\ task[r].pc = "load"
    /\ CanStep(r)
    /\ task' = [task EXCEPT ![r].pc = "persist", ![r].properties = ReadProperties(file)]
    /\ running' = Thread(r, "persist")
    /\ UNCHANGED <<file, now, last, hist>>

\* addProperty, lines 46-54: the images of the record.
ImageMetadata(results) ==
    [i \in 1..Len(results) |->
        [originalName |-> results[i].originalName, size |-> results[i].size]]

\* saveProperty, lines 59-74, and the answer of addProperty.
SavePersist(r, W) ==
    /\ task[r].kind = "create"
    /\ task[r].pc = "persist"
    /\ CanStep(r)
    /\ \E rnd \in Rands, w \in W :
         LET t            == task[r]
             propertyData == Spread(t.data, [images |-> ImageMetadata(t.results)])
             newProperty  == NewProperty(<<now, rnd>>, propertyData, now, now)
         IN  /\ file' = WriteFile(file, Append(t.properties, newProperty), w)
             /\ task' = [task EXCEPT ![r] =
                           IF WriteProperties(w) THEN Answered(@, 201, newProperty.id)
                                                 ELSE Answered(@, 500, NoId)]
    /\ running' = 0
    /\ UNCHANGED <<now, last, hist>>

\* updateProperty, lines 103-119, and the answer of updatePropertyById.
UpdatePersist(r, W) ==
    /\ task[r].kind = "update"
    /\ task[r].pc = "persist"
    /\ CanStep(r)
    /\ LET t     == task[r]
           index == FindIndex(t.properties, t.id)
       IN  IF index = 0
             THEN /\ task' = [task EXCEPT ![r] = Answered(@, 404, NoId)]
                  /\ UNCHANGED file
             ELSE \E w \in W :
                  /\ file' = WriteFile(file,
                               [t.properties EXCEPT
                                  ![index] = MergedProperty(@, t.data, now)], w)
                  /\ task' = [task EXCEPT ![r] =
                                Answered(@, IF WriteProperties(w) THEN 200 ELSE 500, NoId)]
    /\ running' = 0
    /\ UNCHANGED <<now, last, hist>>

\* deleteProperty, lines 129-135, and the answer of deletePropertyById.
DeletePersist(r, W) ==
    /\ task[r].kind = "delete"
    /\ task[r].pc = "persist"
    /\ CanStep(r)
    /\ LET t                  == task[r]
           filteredProperties == FilteredProperties(t.properties, t.id)
       IN  IF Len(filteredProperties) = Len(t.properties)
             THEN /\ task' = [task EXCEPT ![r] = Answered(@, 404, NoId)]
                  /\ UNCHANGED file
             ELSE \E w \in W :
                  /\ file' = WriteFile(file, filteredProperties, w)
                  /\ task' = [task EXCEPT ![r] =
                                Answered(@, IF WriteProperties(w) THEN 200 ELSE 404, NoId)]
    /\ running' = 0
    /\ UNCHANGED <<now, last, hist>>

\* The clock of the server.
ServerTick ==
    /\ now < MaxClock
    /\ now' = now + 1
    /\ UNCHANGED <<file, last, hist, task, running>>

Next ==
    \/ ServerTick
    \/ \E r \in Reqs :
         \/ AddPropertyStart(r) \/ ProcessImagesStep(r, {TRUE}) \/ AddPropertyCheck(r)
         \/ UpdateStart(r) \/ DeleteStart(r)
         \/ Load(r)
         \/ SavePersist(r, {"ok"}) \/ UpdatePersist(r, {"ok"}) \/ DeletePersist(r, {"ok"})

\* The server: MaxReq requests on one event loop, the disk in order. The ids
\* the requests name are those of the records in the file, or an id that no
\* record has.
Spec == Init /\ [][Next]_vars

\* ------------------------------------------------------------ validation
\* Joi.string().base64(): a non-empty string of groups of four characters
\* of the alphabet, the last group padded with = or ==.
JoiBase64(s) ==
    /\ Len(s) > 0
    /\ Len(s) % 4 = 0
    /\ \A i \in 1..Len(s) :
          \/ s[i] \in Base64Alphabet
          \/ /\ s[i] = "="
             /\ s[Len(s)] = "="
             /\ i >= Len(s) - 1

\* size: Joi.number().max(10 * 1024 * 1024)
JoiMaxSize == 10 * 1024 * 1024

\* An item of the images array of propertyFormSchema: name required, the
\* other three optional. The length limits (255, 15 MB) are far above the
\* strings of the model.
SchemaImage(img) ==
    /\ img.name # ""
    /\ img.size <= JoiMaxSize
    /\ img.type = "" \/ img.type \in AllowedTypes
    /\ img.data = << >> \/ JoiBase64(img.data)

\* The keys of propertyFormSchema: price stands for the required fields of
\* a listing, images is optional.
SchemaKeys == {"price", "images"}

\* price: Joi.number().required().min(0).max(10000000)
JoiMaxPrice == 10000000

\* containsSuspiciousPatterns, on the characters the model's strings can
\* hold: those of cmdPatterns but the backquote. None of the words and of
\* the two-character marks of the three patterns is in a string of the model.
SuspiciousChars == {";", "|", "&"}

ContainsSuspiciousPatterns(value) ==
    /\ "images" \in DOMAIN value
    /\ \E i \in 1..Len(value.images) :
          \E j \in 1..Len(value.images[i].data) :
              value.images[i].data[j] \in SuspiciousChars

\* validatePropertyForm on a JSON body: the status it answers with, 0 when
\* it calls next(), and then req.validatedData. The schema carries
\* stripUnknown {objects, arrays}: unknown keys are removed; strip tells
\* whether Joi removes an images item that does not match (TRUE) or reports
\* it (FALSE), Joi's code being outside the repository.
ValidatePropertyForm(body, strip) ==
    LET known  == [k \in DOMAIN body \cap SchemaKeys |-> body[k]]
        images == IF "images" \in DOMAIN known THEN known.images ELSE << >>
        kept   == SelectSeq(images, SchemaImage)
        value  == IF "images" \in DOMAIN known
                    THEN Spread(known, [images |-> kept]) ELSE known
    IN  IF \/ "price" \notin DOMAIN known
           \/ known.price < 0 \/ known.price > JoiMaxPrice
           \/ (kept # images /\ ~strip)
          THEN [status |-> 400, message |-> "Property validation error", value |-> Empty]
        ELSE IF ContainsSuspiciousPatterns(value)
          THEN [status |-> 403, message |-> "Request contains suspicious patterns",
                value |-> Empty]
        ELSE [status |-> 0, message |-> "", value |-> value]

\* ------------------------------------------------------ the HTTP pipeline
\* processImages as a function of the batch; wrs[i] tells whether the
\* writes of the i-th image go through. The entries are those of
\* ProcessImagesStep.
RECURSIVE ProcessImagesLoop(_, _, _, _, _)
ProcessImagesLoop(images, wrs, i, results, errors) ==
    IF i >= Len(images)
      THEN [success |-> BatchSuccess(results, errors),
            processedImages |-> results, errors |-> errors]
    ELSE LET imageData == images[i + 1]
             result    == ProcessImage(imageData, wrs[i + 1])
         IN  IF result.success
               THEN ProcessImagesLoop(images, wrs, i + 1,
                        Append(results, [index |-> i,
                                         originalName |-> result.originalName,
                                         size |-> result.size]),
                        errors)
               ELSE ProcessImagesLoop(images, wrs, i + 1, results,
                        Append(errors, [index |-> i,
                                        originalName |-> imageData.name]))

\* A loop that gives up at the first image that fails.
FailFast(images, wrs) ==
    LET failing == {i \in 1..Len(images) : ~ProcessImage(images[i], wrs[i]).success}
        k       == IF failing = {} THEN Len(images) ELSE Min(failing)
    IN  ProcessImagesLoop(SubSeq(images, 1, k), wrs, 0, << >>, << >>)

\* processImages: lines 127-133 for no images, then the loop.
ProcessImages(images, wrs) ==
    IF Len(images) = 0
      THEN [success |-> TRUE, processedImages |-> << >>, errors |-> << >>]
      ELSE ProcessImagesLoop(images, wrs, 0, << >>, << >>)

\* addProperty, lines 25-43: processImages is called for a non-empty images
\* array only.
Ingestion(propertyData, wrs) ==
    IF "images" \in DOMAIN propertyData /\ Len(propertyData.images) > 0
      THEN Spread([called |-> TRUE], ProcessImages(propertyData.images, wrs))
      ELSE [called |-> FALSE, success |-> TRUE,
            processedImages |-> << >>, errors |-> << >>]

\* The validated form handed to saveProperty as it is.
RawData(propertyData, processedImages) == propertyData

\* addProperty, lines 46-54: the mapping handed to saveProperty.
RecordData(propertyData, processedImages) ==
    Spread(propertyData, [images |-> ImageMetadata(processedImages)])

\* The image writes of a batch all go through.
AllWritten(images) == [i \in 1..Len(images) |-> TRUE]

\* A payload without data.
NoDataImage == [name |-> "c.png", type |-> "", data |-> << >>, size |-> 0]

RawImages == {GoodImage, BadImage, NoDataImage}

\* JSON bodies: without the required fields, with them, with a key the
\* schema does not know, with an empty images array, with images.
FormBodies ==
    {Empty} \cup PlainAttrs
      \cup {Spread(a, [id |-> NoId]) : a \in PlainAttrs}
      \cup {Spread(a, [images |-> << >>]) : a \in PlainAttrs}
      \cup {[price |-> Min(Prices), images |-> b] :
               b \in SeqsUpTo(RawImages, MaxImages)}

ImagesOf(value) == IF "images" \in DOMAIN value THEN value.images ELSE << >>

\* A request that was answered: the route, the id in its path, the keys of
\* its body and the number of images in it, the status and the message of
\* the answer, the number of images that passed validatePropertyForm and the
\* number of image files written.
Served(op, id, body, ret, message, images, files) ==
    [op |-> op, id |-> id, keys |-> DOMAIN body, sent |-> Len(ImagesOf(body)),
     ret |-> ret, message |-> message, images |-> images, files |-> files]

\* What Joi may do with the images of a body: remove or report if an item
\* does not match, nothing to choose otherwise.
StripModes(body) ==
    IF SelectSeq(ImagesOf(body), SchemaImage) # ImagesOf(body)
      THEN BOOLEAN ELSE {TRUE}

\* The record that addProperty has saveProperty build from req.validatedData
\* once the images are ingested.
PostedRecord(propertyData, rnd) ==
    LET imageResult == Ingestion(propertyData, AllWritten(ImagesOf(propertyData)))
    IN  NewProperty(<<now, rnd>>,
                    RecordData(propertyData, imageResult.processedImages), now, now)

\* POST /property with a body: validatePropertyForm, then addProperty with
\* saveProperty.
Post(body, strip, rnd, w) ==
    LET form         == ValidatePropertyForm(body, strip)
        propertyData == form.value
        images       == ImagesOf(propertyData)
        imageResult  == Ingestion(propertyData, AllWritten(images))
        files        == Len(imageResult.processedImages)
        properties   == ReadProperties(file)
    IN  /\ IF form.status # 0
              THEN /\ last' = Served("post", NoId, body, form.status,
                                     form.message, 0, 0)
                   /\ UNCHANGED file
            ELSE IF ~imageResult.success
              THEN /\ last' = Served("post", NoId, body, 400,
                                     "Image processing failed", Len(images), files)
                   /\ UNCHANGED file
            ELSE /\ Len(properties) < MaxRecords
                 /\ file' = WriteFile(file,
                               Append(properties, PostedRecord(propertyData, rnd)), w)
                 /\ last' = Served("post", NoId, body,
                                   IF WriteProperties(w) THEN 201 ELSE 500,
                                   "", Len(images), files)
        /\ UNCHANGED <<now, hist, task, running>>

\* The random suffixes a POST can draw: saveProperty draws one, a request
\* answered before it draws none.
Draws(body, strip) ==
    LET form == ValidatePropertyForm(body, strip)
    IN  IF /\ form.status = 0
           /\ Ingestion(form.value, AllWritten(ImagesOf(form.value))).success
          THEN Rands ELSE {Min(Rands)}

PostProperty(W) ==
    \E body \in FormBodies, w \in W :
        \E strip \in StripModes(body) :
            \E rnd \in Draws(body, strip) : Post(body, strip, rnd, w)

\* PUT /property/:id: validatePropertyForm, then updatePropertyById with
\* updateProperty.
PutProperty(W) ==
    /\ \E id \in StoredIds \cup {NoId}, body \in FormBodies, w \in W :
       \E strip \in StripModes(body) :
         LET form       == ValidatePropertyForm(body, strip)
             updateData == form.value
             properties == ReadProperties(file)
             index      == FindIndex(properties, id)
         IN  IF form.status # 0
               THEN /\ last' = Served("put", id, body, form.status,
                                      form.message, 0, 0)
                    /\ UNCHANGED file
             ELSE IF index = 0
               THEN /\ last' = Served("put", id, body, 404,
                                      "Property not found", Len(ImagesOf(updateData)), 0)
                    /\ UNCHANGED file
             ELSE /\ file' = WriteFile(file,
                               [properties EXCEPT
                                  ![index] = MergedProperty(@, updateData, now)], w)
                  /\ last' = Served("put", id, body,
                                    IF WriteProperties(w) THEN 200 ELSE 500,
                                    "", Len(ImagesOf(updateData)), 0)
    /\ UNCHANGED <<now, hist, task, running>>

FormNext ==
    \/ PostProperty({"ok"})
    \/ PutProperty({"ok"})

\* The two routes that take a form, one request at a time, within one
\* reading of the clock.
SpecForm == Init /\ [][FormNext]_vars

PostNext == PostProperty({"ok"})

\* The creates alone.
SpecPost == Init /\ [][PostNext]_vars

\* ------------------------------------------------- imageHandler, called
\* The payloads handed to processImage: null, and every combination of a
\* name, a type, a data and a size that is absent, wrong or right.
Payloads ==
    {Null} \cup
    [name : {"", "a.png"},
     type : {"", "image/gif", "image/png"},
     data : {<< >>, PlainBase64, PngUri},
     size : {0, 3, MaxImageBytes, MaxImageBytes + 1}]

\* processImage(imageData) has returned.
CallProcessImage ==
    /\ \E imageData \in Payloads, wr \in BOOLEAN :
         last' = [op |-> "processImage", arg |-> imageData, wr |-> wr,
                  ret |-> ProcessImage(imageData, wr),
                  wrote |-> ImageWritten(imageData, wr)]
    /\ UNCHANGED <<file, now, hist, task, running>>

\* processImages(images) has returned.
CallProcessImages ==
    /\ \E images \in SeqsUpTo(RawImages, MaxImages) :
         \E wrs \in [1..Len(images) -> BOOLEAN] :
             last' = [op |-> "processImages", arg |-> images, wr |-> wrs,
                      ret |-> ProcessImages(images, wrs)]
    /\ UNCHANGED <<file, now, hist, task, running>>

ImagesNext == CallProcessImage \/ CallProcessImages

\* The two functions of imageHandler, called with what a caller can pass.
SpecImages == Init /\ [][ImagesNext]_vars

\* ----------------------------------------------------------------- search
UpperSeq ==
    <<"A", "B", "C", "D", "E", "F", "G", "H", "I", "J", "K", "L", "M",
      "N", "O", "P", "Q", "R", "S", "T", "U", "V", "W", "X", "Y", "Z">>

LowerSeq ==
    <<"a", "b", "c", "d", "e", "f", "g", "h", "i", "j", "k", "l", "m",
      "n", "o", "p", "q", "r", "s", "t", "u", "v", "w", "x", "y", "z">>

\* String.prototype.toLowerCase
ToLowerCase(str) ==
    [i \in 1..Len(str) |->
        IF str[i] \in UpperLetters
          THEN LowerSeq[CHOOSE k \in 1..Len(UpperSeq) : UpperSeq[k] = str[i]]
          ELSE str[i]]

\* String.prototype.includes
Includes(str, sub) ==
    \E i \in 0..(Len(str) - Len(sub)) : SubSeq(str, i + 1, i + Len(sub)) = sub

DigitValue(c) == CHOOSE k \in 0..9 : <<"0", "1", "2", "3", "4", "5", "6", "7", "8", "9">>[k + 1] = c

\* parseFloat and parseInt on a string of digits.
RECURSIVE ParseNumber(_)
ParseNumber(str) ==
    IF Len(str) = 0 THEN 0
    ELSE 10 * ParseNumber(SubSeq(str, 1, Len(str) - 1)) + DigitValue(str[Len(str)])

\* if (x), x a string or a number of filters or of req.query: a key that is
\* not there gives undefined.
Truthy(obj, k, zero) == k \in DOMAIN obj /\ obj[k] # zero

\* searchProperties, lines 147-173, on the collection read.
SearchProperties(properties, filters) ==
    LET p1 == IF Truthy(filters, "propertyType", << >>)
                THEN SelectSeq(properties, LAMBDA prop :
                       Includes(ToLowerCase(prop.propertyType),
                                ToLowerCase(filters.propertyType)))
                ELSE properties
        p2 == IF Truthy(filters, "location", << >>)
                THEN SelectSeq(p1, LAMBDA prop :
                       Includes(ToLowerCase(prop.location),
                                ToLowerCase(filters.location)))
                ELSE p1
        p3 == IF Truthy(filters, "minPrice", 0)
                THEN SelectSeq(p2, LAMBDA prop : prop.price >= filters.minPrice)
                ELSE p2
        p4 == IF Truthy(filters, "maxPrice", 0)
                THEN SelectSeq(p3, LAMBDA prop : prop.price <= filters.maxPrice)
                ELSE p3
        p5 == IF Truthy(filters, "beds", 0)
                THEN SelectSeq(p4, LAMBDA prop : prop.beds >= filters.beds)
                ELSE p4
    IN  IF Truthy(filters, "baths", 0)
          THEN SelectSeq(p5, LAMBDA prop : prop.baths >= filters.baths)
          ELSE p5

TextKeys == {"propertyType", "location"}

NumberKeys == {"minPrice", "maxPrice", "beds", "baths"}

\* getProperties, lines 93-101: the filters built from req.query, whose
\* values are strings.
FiltersOf(query) ==
    [k \in {k \in DOMAIN query : Truthy(query, k, << >>)} |->
        IF k \in NumberKeys THEN ParseNumber(query[k]) ELSE query[k]]

\* Listings as the form lets them through, with short strings.
Listings ==
    {[propertyType |-> t, location |-> l, price |-> n, beds |-> n, baths |-> 1 - n] :
        t \in {<<"F", "l", "a", "t">>, <<"V", "i", "l", "l", "a">>},
        l \in {<<"A", "b">>, <<"b", "C">>},
        n \in {0, 1}}

TextValues == {<< >>, <<"L", "a">>, <<"B">>}

NumberValues == {<<"0">>, <<"1">>}

\* The values a parameter of the query string takes.
ValuesOf(k) == IF k \in TextKeys THEN TextValues ELSE NumberValues

\* Query strings with at most two parameters.
Queries ==
    LET keys == TextKeys \cup NumberKeys
    IN  {Empty}
          \cup UNION {{[j \in {k} |-> v] : v \in ValuesOf(k)} : k \in keys}
          \cup UNION {{[j \in {kk[1], kk[2]} |-> IF j = kk[1] THEN v1 ELSE v2] :
                          v1 \in ValuesOf(kk[1]), v2 \in ValuesOf(kk[2])} :
                       kk \in {pair \in keys \X keys : pair[1] # pair[2]}}

\* GET /property: getProperties with searchProperties.
GetProperties ==
    /\ \E query \in Queries :
         LET filters == FiltersOf(query)
         IN  last' = [op |-> "search", query |-> query, filters |-> filters,
                      ret |-> SearchProperties(ReadProperties(file), filters)]
    /\ UNCHANGED <<file, now, hist, task, running>>

SearchNext ==
    \/ CallSave(Listings, {"ok"}) /\ UNCHANGED hist
    \/ GetProperties

\* Listings are saved and searched, within one reading of the clock.
SpecSearch == Init /\ [][SearchNext]_vars

\* ------------------------------------------------------------ the claims
Collection == ReadProperties(file)

Saved   == last.op = "save" /\ last.ret = "record"
Updated == last.op = "update" /\ last.ret = "record"

\* The record the last step's save appended.
Appended == file'.data[Len(file'.data)]

\* Request r is a create that was answered 201.
Created(r) ==
    task[r].kind = "create" /\ task[r].pc = "done" /\ task[r].status = 201

\* C1: the creates that succeeded got ids different from one another, and
\* once all MaxReq requests are creates that succeeded the collection holds
\* MaxReq records, the record of each among them.
C1_ConcurrentCreates ==
    /\ \A r, s \in Reqs : (r # s /\ Created(r) /\ Created(s)) => task[r].out # task[s].out
    /\ (\A r \in Reqs : Created(r)) =>
          /\ Len(Collection) = MaxReq
          /\ \A r \in Reqs : \E i \in 1..Len(Collection) : Collection[i].id = task[r].out

\* Request r has loaded the collection and not yet persisted.
InCycle(r) == task[r].pc = "persist"

\* C2: at most one request is between its load and its persist, and the
\* collection it loaded is the one the file holds: every persist is computed
\* from the file as it is, as in a serial execution.
C2_CyclesExclusive ==
    \A r \in Reqs :
        InCycle(r) =>
            /\ \A s \in Reqs \ {r} : ~InCycle(s)
            /\ task[r].properties = ReadProperties(file)

\* C2 witness: a request is between its load and its persist while another
\* one, a create, is suspended in its image processing.
C2_Witness ==
    \E r, s \in Reqs :
        /\ r # s
        /\ InCycle(r)
        /\ task[s].pc \in {"images", "check"}

\* An image of request r's batch has failed.
Failing(r) == task[r].kind = "create" /\ task[r].errors # << >>

\* C3: a create with a failed image never enters saveProperty and is
\* answered 400; none of its steps changes the file; and a record that a
\* create appends carries as many images as were submitted.
C3_AllOrNothingCreate ==
    /\ [](\A r \in Reqs :
            Failing(r) =>
                /\ task[r].pc \in {"images", "check", "done"}
                /\ task[r].pc = "done" => task[r].status = 400)
    /\ [][\A r \in Reqs :
            /\ (Failing(r)' /\ task'[r] # task[r]) => file' = file
            /\ (task[r].kind = "create" /\ InCycle(r) /\ Created(r)')
                 => Len(Appended.images) = Len(task[r].images)]_vars

\* C3 witness: a create whose first image was ingested and whose second
\* failed has been answered 400.
C3_Witness ==
    \E r \in Reqs :
        /\ task[r].pc = "done"
        /\ task[r].status = 400
        /\ Len(task[r].errors) = 1
        /\ task[r].errors[1].index = 1

UniqueIds ==
    \A i, j \in 1..Len(Collection) : i # j => Collection[i].id # Collection[j].id

\* C4: no two records of the collection have the same id, and a save never
\* gives a record an id that was assigned to a record before, deleted or not.
C4_IdsUniqueNeverReused ==
    /\ []UniqueIds
    /\ [][Saved' => hist[Appended.id] = "never"]_vars

\* C5: a save gives the record the id the store generated at that moment,
\* and an update, whatever mapping it is given, leaves the id and the
\* createdAt of every record as they were.
C5_IdAndCreatedAtFixed ==
    [][ /\ Saved' => Appended.id[1] = now /\ Appended.createdAt = now
        /\ Updated' =>
             \A i \in 1..Len(Collection) :
                 /\ file'.data[i].id = Collection[i].id
                 /\ file'.data[i].createdAt = Collection[i].createdAt ]_vars

\* The frame of an update of the record at position i that supplied `keys`.
UpdateFrame(old, new, i, keys) ==
    /\ Len(new) = Len(old)
    /\ \A j \in 1..Len(old) : j # i => new[j] = old[j]
    /\ DOMAIN new[i] = DOMAIN old[i] \cup keys \cup {"updatedAt"}
    /\ \A k \in DOMAIN old[i] \ (keys \cup {"updatedAt"}) : new[i][k] = old[i][k]

\* C6: a successful update changes only the supplied keys and updatedAt of
\* the one record it found: the record's other fields, the other records,
\* their number and their order stay.
C6_UpdateFrame ==
    [][Updated' =>
         UpdateFrame(Collection, file'.data,
                     FindIndex(Collection, last'.id), last'.keys)]_vars

\* C6 witness: an update of one of two records has succeeded, and it
\* supplied a price.
C6_Witness ==
    /\ Updated
    /\ last.keys = {"price"}
    /\ Len(Collection) = 2

\* C7: a successful update leaves the record with an updatedAt strictly
\* greater than the one it had.
C7_UpdatedAtGrows ==
    [][Updated' =>
         LET i == FindIndex(Collection, last'.id)
         IN  file'.data[i].updatedAt > Collection[i].updatedAt]_vars

\* C8: once deleteProperty(id) has returned true, getPropertyById(id) is
\* null until a save produces the id again; a deleteProperty of an id in
\* that state returns false and leaves the file as it is.
C8_DeletedStaysGone ==
    /\ [](\A id \in Ids : hist[id] = "deleted" => GetPropertyById(file, id) = Null)
    /\ [][(last'.op = "delete" /\ hist[last'.id] = "deleted")
            => (last'.ret = "false" /\ file' = file)]_vars

\* C9: a save or an update that throws has not taken effect: the collection
\* read afterwards is the one read before the call.
C9_FailedWriteNoEffect ==
    [][(last'.op \in {"save", "update"} /\ last'.ret = "threw")
         => ReadProperties(file') = ReadProperties(file)]_vars

\* C10: while the file is there and cannot be parsed, no create, update or
\* delete replaces its content.
C10_UnparseableNotReplaced ==
    [][(file.st = "corrupt" /\ last'.op \in {"save", "update", "delete"})
         => file'.st = "corrupt"]_vars

\* The keys of an image-metadata entry, filename and filepath left out as
\* in ProcessImage.
MetadataKeys == {"originalName", "size"}

\* C11: in every record of the collection, every entry of images is an
\* image-metadata entry and none has a data field, whatever POST and PUT
\* requests were served.
C11_ImagesAreMetadata ==
    \A i \in 1..Len(Collection) :
        "images" \in DOMAIN Collection[i] =>
            \A j \in 1..Len(Collection[i].images) :
                /\ "data" \notin DOMAIN Collection[i].images[j]
                /\ DOMAIN Collection[i].images[j] = MetadataKeys

\* The indexes of the entries of a list of processImages.
Indexes(entries) == {entries[k].index : k \in 1..Len(entries)}

Ascending(entries) ==
    \A j, k \in 1..Len(entries) : j < k => entries[j].index < entries[k].index

\* The rules of ingestion for a payload.
PassesRules(imageData) ==
    /\ imageData # Null
    /\ imageData.name # ""
    /\ imageData.type \in {"image/jpeg", "image/jpg", "image/png", "image/webp"}
    /\ imageData.data # << >>
    /\ \E t \in ImageSubtypes :
          StartsWith(imageData.data, DataPrefix \o t \o Base64Mark)
    /\ imageData.size = 0 \/ imageData.size <= 10 * 1024 * 1024

\* C12: processImages returns every index 0..n-1 exactly once, in
\* processedImages if the item passes the rules and is written and in errors
\* if not, whatever happened to the items before it, each entry with the name
\* of its item; both lists ascend; success is true exactly if errors is
\* empty; and no images give success with two empty lists.
C12_ProcessImagesComplete ==
    last.op = "processImages" =>
        LET images == last.arg
            n      == Len(images)
            done   == last.ret.processedImages
            errors == last.ret.errors
        IN  /\ Indexes(done) \cup Indexes(errors) = 0..(n - 1)
            /\ Len(done) + Len(errors) = n
            /\ \A i \in 1..n :
                  (i - 1) \in Indexes(done) <=> (PassesRules(images[i]) /\ last.wr[i])
            /\ \A k \in 1..Len(done) :
                  done[k].originalName = images[done[k].index + 1].name
            /\ \A k \in 1..Len(errors) :
                  errors[k].originalName = images[errors[k].index + 1].name
            /\ Ascending(done) /\ Ascending(errors)
            /\ last.ret.success <=> (errors = << >>)
            /\ n = 0 => (last.ret.success /\ done = << >> /\ errors = << >>)

\* C12 witness: of two images the first has failed and the second was
\* ingested.
C12_Witness ==
    /\ last.op = "processImages"
    /\ Len(last.arg) = 2
    /\ Indexes(last.ret.errors) = {0}
    /\ Indexes(last.ret.processedImages) = {1}

\* C17: processImage returns a result for every payload; the result is a
\* success exactly if the payload passes the rules and the writes go
\* through, and then the file is written; a payload that does not pass the
\* rules leaves no file.
C17_ProcessImageTotal ==
    last.op = "processImage" =>
        /\ "success" \in DOMAIN last.ret
        /\ last.ret.success \in BOOLEAN
        /\ last.ret.success <=> (PassesRules(last.arg) /\ last.wr)
        /\ last.ret.success => last.wrote
        /\ ~PassesRules(last.arg) => ~last.wrote

\* C17 witness: a payload that passes the rules and whose write failed has
\* come back as a failure.
C17_Witness ==
    /\ last.op = "processImage"
    /\ PassesRules(last.arg)
    /\ ~last.wr
    /\ ~last.ret.success

\* Data strings a body can carry: none, plain base64 with and without
\* padding, a data URI, base64 behind a prefix that is not one of an image.
SampleData ==
    {<< >>, PlainBase64, <<"A", "A", "=", "=">>, <<"A", "A", "A", "=">>, PngUri,
     DataPrefix \o <<"g", "i", "f">> \o Base64Mark \o PlainBase64}

\* C19: every record in the collection has an empty images sequence; a POST
\* whose images array is not empty once validatePropertyForm has let it
\* through is answered 400 'Image processing failed' with no image file
\* written; and a payload that the request schema accepts does not pass
\* validateImageData.
C19_PostKeepsNoImages ==
    /\ \A i \in 1..Len(Collection) : Collection[i].images = << >>
    /\ (last.op = "post" /\ last.images > 0) =>
          /\ last.ret = 400
          /\ last.message = "Image processing failed"
          /\ last.files = 0
    /\ \A img \in [name : {"a.png"}, type : {"", "image/png"},
                   data : SampleData, size : {0, 3}] :
          SchemaImage(img) =>
              /\ img.data = << >> \/ JoiBase64(img.data)
              /\ ~ValidateImageData(img).isValid

\* C19 witness: a POST with an images array that passed validatePropertyForm
\* has been answered, a record being in the collection.
C19_Witness ==
    /\ last.op = "post"
    /\ last.images > 0
    /\ Len(Collection) >= 1

\* A body with the images key, holding no images.
WithNoImages(attrs) == Spread(attrs, [images |-> << >>])

\* C16: a POST of attributes with images: [] persists exactly one record,
\* the one a POST of the attributes without the images key persists at that
\* moment, with images equal to the empty sequence; neither calls
\* processImages; and the same with the two bodies exchanged.
C16_EmptyImagesAsOmitted ==
    [][(last'.op = "post" /\ last'.sent = 0) =>
       \A attrs \in PlainAttrs, rnd \in Rands :
          LET omitted == ValidatePropertyForm(attrs, TRUE).value
              empty   == ValidatePropertyForm(WithNoImages(attrs), TRUE).value
          IN  (Post(WithNoImages(attrs), TRUE, rnd, "ok") \/ Post(attrs, TRUE, rnd, "ok")) =>
                /\ last'.ret = 201
                /\ Len(file'.data) = Len(Collection) + 1
                /\ SubSeq(file'.data, 1, Len(Collection)) = Collection
                /\ Appended = PostedRecord(omitted, rnd)
                /\ Appended = PostedRecord(empty, rnd)
                /\ Appended.images = << >>
                /\ ~Ingestion(omitted, << >>).called
                /\ ~Ingestion(empty, << >>).called
                /\ last'.files = 0]_vars

\* C16 witness: a POST whose body has an images key and no images has been
\* answered 201.
C16_Witness ==
    /\ last.op = "post"
    /\ last.ret = 201
    /\ "images" \in last.keys
    /\ last.images = 0

\* C19 as stated: every POST whose body has a non-empty images array is
\* answered 400 'Image processing failed' and writes no image file.
C19_EveryImagesPostFails ==
    (last.op = "post" /\ last.sent > 0) =>
        /\ last.ret = 400
        /\ last.message = "Image processing failed"
        /\ last.files = 0

\* C18: a deleteProperty that returns false was called with an id that no
\* record of the collection had, also when the write can fail.
C18_FalseMeansAbsent ==
    [][(last'.op = "delete" /\ last'.ret = "false")
         => FindIndex(Collection, last'.id) = 0]_vars

\* C15: the record saveProperty returns is the one getPropertyById then
\* finds under its id; it has every key of the attributes with the value
\* given, and besides these only id, createdAt and updatedAt.
C15_SaveGetRoundTrip ==
    [][\A propertyData \in OwnKeyAttrs, rnd \in Rands :
          SaveProperty(propertyData, rnd, "ok") =>
              LET newProperty == NewProperty(<<now, rnd>>, propertyData, now, now)
              IN  /\ GetPropertyById(file', newProperty.id) = newProperty
                  /\ \A k \in DOMAIN propertyData : newProperty[k] = propertyData[k]
                  /\ DOMAIN newProperty =
                        DOMAIN propertyData \cup {"id", "createdAt", "updatedAt"}]_vars

\* The field of a record that a numeric criterion bounds.
FieldOf(k) == IF k \in {"minPrice", "maxPrice"} THEN "price" ELSE k

\* A record is within the bound v of criterion k.
Within(prop, k, v) ==
    IF k = "maxPrice" THEN prop.price <= v ELSE prop[FieldOf(k)] >= v

\* A record satisfies every criterion of filters.
Matches(prop, filters) ==
    /\ \A k \in TextKeys \cap DOMAIN filters :
          Includes(ToLowerCase(prop[k]), ToLowerCase(filters[k]))
    /\ \A k \in NumberKeys \cap DOMAIN filters : Within(prop, k, filters[k])

\* C13: a search returns the records of the collection that satisfy every
\* criterion supplied, in the order of the collection, and without criteria
\* the collection as getAllProperties returns it.
C13_SearchExact ==
    last.op = "search" =>
        /\ last.ret = SelectSeq(Collection, LAMBDA prop : Matches(prop, last.filters))
        /\ last.filters = Empty => last.ret = Collection

\* C14: for every numeric criterion supplied, 0 included, no record
\* returned is beyond the bound, and every record of the collection that is
\* on the bound and satisfies the other criteria is returned.
C14_InclusiveBounds ==
    last.op = "search" =>
        \A k \in NumberKeys \cap DOMAIN last.filters :
            /\ \A i \in 1..Len(last.ret) : Within(last.ret[i], k, last.filters[k])
            /\ \A i \in 1..Len(Collection) :
                  (/\ Collection[i][FieldOf(k)] = last.filters[k]
                   /\ Matches(Collection[i], last.filters))
                      => \E j \in 1..Len(last.ret) : last.ret[j] = Collection[i]

====
